---------------------------- MODULE Spec2Model ----------------------------
(* Model of bbox_setup.py: the CUDA toolchain locator (locate_cuda), the      *)
(* compile override installed by customize_compiler_for_nvcc, and the build   *)
(* driven by custom_build_ext.build_extensions.                               *)
(*                                                                            *)
(* Paths are sequences of components below the filesystem root (<<>> is "/"). *)
(* Source-file names are sequences of one-character strings, so that          *)
(* os.path.splitext is computed as the library computes it.  POSIX semantics  *)
(* of os.path and shutil.which are modelled.                                  *)
EXTENDS Naturals, Sequences, FiniteSets

VARIABLES
    environ,      \* os.environ's CUDAHOME: <<>> when unset, <<home>> when set
    PATH,         \* the executable search path, a sequence of directories
    fs,           \* the paths that exist on disk
    noexec,       \* existing files that are not executable
    pc,           \* position of the script
    home,         \* locate_cuda's local 'home'
    nvcc,         \* locate_cuda's local 'nvcc'
    vidx,         \* position of the validation loop over cudaconfig.items()
    CUDA,         \* the module-level CUDA: <<>> until assigned, then <<cudaconfig>>
    searches,     \* number of calls of which()
    locateCalls,  \* number of calls of locate_cuda()
    installed,    \* TRUE once self.compile is the override
    extIdx,       \* number of extensions built so far
    compileCalls, \* number of calls of the override
    baseCalls,    \* number of calls of the original compile ("super")
    lastArgs,     \* arguments of the last call of the override: <<>> or <<args>>
    lastBase,     \* arguments the original compile received in that call
    lastMap,      \* the caller's extra_postargs mapping after that call
    numExt,       \* number of extension modules handed to setup()
    raised,       \* the errors raised so far, in order
    status        \* exit status of the process: "running", "0" or "1"

vars == <<environ, PATH, fs, noexec, pc, home, nvcc, vidx, CUDA, searches,
          locateCalls, installed, extIdx, compileCalls, baseCalls, lastArgs,
          lastBase, lastMap, numExt, raised, status>>

envVars == <<environ, PATH, fs, noexec, numExt>>

callVars == <<compileCalls, baseCalls, lastArgs, lastBase, lastMap>>

-----------------------------------------------------------------------------
(* Bounds *)

MaxPathLen == 2     \* directories on the search path
MaxExt == 2         \* extension modules of one build
MaxNameLen == 4     \* characters of the first source-file name

-----------------------------------------------------------------------------
(* os.path on component sequences *)

pjoin(a, b) == a \o b

dirname(p) == IF Len(p) = 0 THEN p ELSE SubSeq(p, 1, Len(p) - 1)

exists(p) == p \in fs

\* shutil.which's _access_check: the file exists and is executable (the
\* candidates <dir>/nvcc of the modelled filesystems are regular files)
access_check(p) == p \in fs /\ p \notin noexec

-----------------------------------------------------------------------------
(* The filesystems and environments the script is started in *)

CudaRoot == <<"cuda">>
UsrRoot == <<"usr">>

Leaves == { CudaRoot,
            <<"cuda", "bin", "nvcc">>, <<"cuda", "alt", "nvcc">>,
            <<"cuda", "include">>, <<"cuda", "lib">>, <<"cuda", "lib", "x64">>,
            <<"usr", "bin", "nvcc">>, <<"usr", "include">>,
            <<"usr", "lib", "x64">> }

\* a path exists only below existing directories; "/" always exists
Closure(S) == UNION { { SubSeq(p, 1, k) : k \in 0..Len(p) } : p \in S } \cup {<< >>}

SearchDirs == { <<"cuda", "bin">>, <<"cuda", "alt">>, <<"usr", "bin">> }

SeqsUpTo(S, n) == UNION { [1..k -> S] : k \in 0..n }

HomeValues == { CudaRoot, UsrRoot }

\* the filesystems: any set of leaves with the directories above them; the
\* second installation has its include and library directories together
Filesystems ==
    { F \in { Closure(S) : S \in SUBSET Leaves } :
        (<<"usr", "include">> \in F) <=> (<<"usr", "lib", "x64">> \in F) }

-----------------------------------------------------------------------------
(* locate_cuda *)

\* shutil.which(name, path=PATH): the directories in order, first hit returned;
\* <<>> models None
RECURSIVE which_from(_, _, _)
which_from(name, path, i) ==
    IF i > Len(path) THEN << >>
    ELSE LET f == pjoin(path[i], <<name>>)
         IN  IF access_check(f) THEN <<f>> ELSE which_from(name, path, i + 1)

\* variant: the search runs from the end of the path, the last hit wins
RECURSIVE which_back(_, _, _)
which_back(name, path, i) ==
    IF i = 0 THEN << >>
    ELSE LET f == pjoin(path[i], <<name>>)
         IN  IF access_check(f) THEN <<f>> ELSE which_back(name, path, i - 1)

which_last(name, path) == which_back(name, path, Len(path))

which(name, path) == which_from(name, path, 1)

\* variant: the test looks for a variable that is never set
UseOverrideNever(env) == FALSE

\* 'CUDAHOME' in os.environ
UseOverride(env) == env # << >>

\* nvcc = pjoin(home, 'bin', 'nvcc')
override_nvcc(h) == pjoin(h, <<"bin", "nvcc">>)

\* home = os.path.dirname(os.path.dirname(nvcc))
derive_home(n) == dirname(dirname(n))

\* variant: the keys visited in sorted order
ConfigKeysSorted == <<"home", "include", "lib64", "nvcc">>

\* the keys of cudaconfig in insertion order, the order items() yields them
ConfigKeys == <<"home", "nvcc", "include", "lib64">>

\* variant: the library directory taken to be <home>/lib64
cudaconfig_lib64(h, n) ==
    [home |-> h, nvcc |-> n,
     include |-> pjoin(h, <<"include">>),
     lib64 |-> pjoin(h, <<"lib64">>)]

cudaconfig(h, n) ==
    [home |-> h, nvcc |-> n,
     include |-> pjoin(h, <<"include">>),
     lib64 |-> pjoin(h, <<"lib", "x64">>)]

\* the value cudaconfig.items() pairs with the i-th key
ConfigValue(cfg, i) ==
    CASE ConfigKeys[i] = "home" -> cfg.home
      [] ConfigKeys[i] = "nvcc" -> cfg.nvcc
      [] ConfigKeys[i] = "include" -> cfg.include
      [] ConfigKeys[i] = "lib64" -> cfg.lib64

(* Errors.  key: the field, executable or mapping key the message names;     *)
(* path: the path or file the message names (<<>> when none); var: the       *)
(* environment variable the message names ("" when none).                    *)
NotFoundError == [kind |-> "NotFound", key |-> "nvcc", path |-> << >>, var |-> "CUDAHOME"]

PathInvalidError(k, v) == [kind |-> "PathInvalid", key |-> k, path |-> v, var |-> ""]

\* an uncaught exception ends the process with a non-zero status
Raise(e) ==
    /\ raised' = Append(raised, e)
    /\ pc' = "exit"
    /\ status' = "1"

\* lines 37-39: CUDAHOME is in the environment
LocateOverride ==
    /\ pc = "locate"
    /\ UseOverride(environ)
    /\ home' = environ[1]
    /\ nvcc' = override_nvcc(environ[1])
    /\ locateCalls' = locateCalls + 1
    /\ pc' = "validate"
    /\ vidx' = 1
    /\ UNCHANGED <<envVars, CUDA, searches, installed, extIdx, callVars, raised, status>>

\* lines 42-47: nvcc is found on the PATH
LocateSearch ==
    /\ pc = "locate"
    /\ ~UseOverride(environ)
    /\ which("nvcc", PATH) # << >>
    /\ nvcc' = which("nvcc", PATH)[1]
    /\ home' = derive_home(which("nvcc", PATH)[1])
    /\ searches' = searches + 1
    /\ locateCalls' = locateCalls + 1
    /\ pc' = "validate"
    /\ vidx' = 1
    /\ UNCHANGED <<envVars, CUDA, installed, extIdx, callVars, raised, status>>

\* variant: the None of which() is not tested and validation goes ahead
LocateNotFoundFallThrough ==
    /\ pc = "locate"
    /\ ~UseOverride(environ)
    /\ which("nvcc", PATH) = << >>
    /\ nvcc' = << >>
    /\ home' = << >>
    /\ searches' = searches + 1
    /\ locateCalls' = locateCalls + 1
    /\ pc' = "validate"
    /\ vidx' = 1
    /\ UNCHANGED <<envVars, CUDA, installed, extIdx, callVars, raised, status>>

\* lines 42-45: which() returns None
LocateNotFound ==
    /\ pc = "locate"
    /\ ~UseOverride(environ)
    /\ which("nvcc", PATH) = << >>
    /\ searches' = searches + 1
    /\ locateCalls' = locateCalls + 1
    /\ Raise(NotFoundError)
    /\ UNCHANGED <<envVars, home, nvcc, vidx, CUDA, installed, extIdx,
                   callVars>>

\* lines 52-53: one iteration of the validation loop, the path exists
ValidateStep ==
    /\ pc = "validate"
    /\ vidx <= Len(ConfigKeys)
    /\ exists(ConfigValue(cudaconfig(home, nvcc), vidx))
    /\ vidx' = vidx + 1
    /\ UNCHANGED <<envVars, pc, home, nvcc, CUDA, searches, locateCalls,
                   installed, extIdx, compileCalls, baseCalls, lastArgs,
                   lastBase, lastMap, numExt, raised, status>>

\* lines 53-54: one iteration of the validation loop, the path is missing
ValidateFail ==
    /\ pc = "validate"
    /\ vidx <= Len(ConfigKeys)
    /\ ~exists(ConfigValue(cudaconfig(home, nvcc), vidx))
    /\ Raise(PathInvalidError(ConfigKeys[vidx],
                              ConfigValue(cudaconfig(home, nvcc), vidx)))
    /\ UNCHANGED <<envVars, home, nvcc, vidx, CUDA, searches, locateCalls,
                   installed, extIdx, callVars>>

\* lines 56 and 59: return cudaconfig; CUDA = locate_cuda()
LocateReturn ==
    /\ pc = "validate"
    /\ vidx > Len(ConfigKeys)
    /\ CUDA' = <<cudaconfig(home, nvcc)>>
    /\ pc' = "setup"
    /\ UNCHANGED <<envVars, home, nvcc, vidx, searches, locateCalls,
                   installed, extIdx, compileCalls, baseCalls, lastArgs,
                   lastBase, lastMap, numExt, raised, status>>

-----------------------------------------------------------------------------
(* os.path.splitext on character sequences (posixpath: sep "/", extsep ".") *)

Chars == { ".", "c", "u", "/" }

\* str.rfind: the last index holding ch, 0 when there is none
RECURSIVE rfind_from(_, _, _)
rfind_from(p, ch, i) ==
    IF i = 0 THEN 0
    ELSE IF p[i] = ch THEN i ELSE rfind_from(p, ch, i - 1)

rfind(p, ch) == rfind_from(p, ch, Len(p))

\* genericpath._splitext's loop: skip the leading dots of the file name
RECURSIVE splitext_scan(_, _, _)
splitext_scan(p, filenameIndex, dotIndex) ==
    IF filenameIndex < dotIndex
    THEN IF p[filenameIndex] # "."
         THEN <<SubSeq(p, 1, dotIndex - 1), SubSeq(p, dotIndex, Len(p))>>
         ELSE splitext_scan(p, filenameIndex + 1, dotIndex)
    ELSE <<p, << >> >>

splitext(p) ==
    LET sepIndex == rfind(p, "/")
        dotIndex == rfind(p, ".")
    IN  IF dotIndex > sepIndex
        THEN splitext_scan(p, sepIndex + 1, dotIndex)
        ELSE <<p, << >> >>

CuExt == <<".", "c", "u">>

-----------------------------------------------------------------------------
(* customize_compiler_for_nvcc: the override of self.compile *)

ToolKeys == { "gcc", "nvcc" }

IndexError == [kind |-> "IndexError", key |-> "", path |-> << >>, var |-> ""]

\* KeyError(key): the message is the key alone
KeyError(k) == [kind |-> "KeyError", key |-> k, path |-> << >>, var |-> ""]

\* raised by the original compile when the compiler fails
CompileError == [kind |-> "CompileError", key |-> "", path |-> << >>, var |-> ""]

\* variant: the last source file decides
toolchain_key_last(sources) ==
    IF splitext(sources[Len(sources)])[2] = CuExt THEN "nvcc" ELSE "gcc"

\* lines 89-98: the key the override subscripts extra_postargs with
toolchain_key(sources) ==
    IF splitext(sources[1])[2] = CuExt THEN "nvcc" ELSE "gcc"

\* variant: extra_postargs.get(key, []), an empty flag list for a missing key
lookup_get(mapping, key) ==
    IF key \in DOMAIN mapping
    THEN [err |-> << >>, val |-> mapping[key]]
    ELSE [err |-> << >>, val |-> << >>]

\* extra_postargs[key]: the entry, or KeyError
lookup(mapping, key) ==
    IF key \in DOMAIN mapping
    THEN [err |-> << >>, val |-> mapping[key]]
    ELSE [err |-> <<KeyError(key)>>, val |-> << >>]

\* variant: depends is not passed on
forward_nodepends(args, postargs) ==
    [sources |-> args.sources, output_dir |-> args.output_dir,
     macros |-> args.macros, include_dirs |-> args.include_dirs,
     debug |-> args.debug, extra_preargs |-> args.extra_preargs,
     extra_postargs |-> postargs, depends |-> "None"]

\* line 101: the arguments super() is called with
forward(args, postargs) ==
    [sources |-> args.sources, output_dir |-> args.output_dir,
     macros |-> args.macros, include_dirs |-> args.include_dirs,
     debug |-> args.debug, extra_preargs |-> args.extra_preargs,
     extra_postargs |-> postargs, depends |-> args.depends]

\* lines 88-101: err is the exception of the override itself, base the call
\* of the original compile it makes, mapping the caller's dict afterwards
compile(args) ==
    IF Len(args.sources) = 0
    THEN [err |-> <<IndexError>>, base |-> << >>, mapping |-> args.extra_postargs]
    ELSE LET r == lookup(args.extra_postargs, toolchain_key(args.sources))
         IN  IF r.err # << >>
             THEN [err |-> r.err, base |-> << >>, mapping |-> args.extra_postargs]
             ELSE [err |-> << >>, base |-> <<forward(args, r.val)>>,
                   mapping |-> args.extra_postargs]

\* one call of self.compile: the override, then the original compile, which
\* succeeds (ok) or raises CompileError; the exception that leaves the call
CallError(args, ok) ==
    IF compile(args).err # << >> THEN compile(args).err
    ELSE IF ok THEN << >> ELSE <<CompileError>>

CallCompile(args) ==
    /\ compileCalls' = compileCalls + 1
    /\ baseCalls' = baseCalls + Len(compile(args).base)
    /\ lastArgs' = <<args>>
    /\ lastBase' = compile(args).base
    /\ lastMap' = <<compile(args).mapping>>

-----------------------------------------------------------------------------
(* The arguments the override is called with *)

FlagLists == { << >>, <<"-O2">>, <<"-arch=sm_35">> }

PostArgMaps == UNION { [D -> FlagLists] : D \in SUBSET ToolKeys }

\* the defaults of the signature, and a call that passes every argument
OtherArgs ==
    { [output_dir |-> "None", macros |-> "None", include_dirs |-> "None",
       debug |-> 0, extra_preargs |-> "None", depends |-> "None"],
      [output_dir |-> "build_temp", macros |-> "macros",
       include_dirs |-> "numpy_include", debug |-> 1,
       extra_preargs |-> "preargs", depends |-> "depends"] }

MkArgs(sources, o, m) ==
    [sources |-> sources, output_dir |-> o.output_dir, macros |-> o.macros,
     include_dirs |-> o.include_dirs, debug |-> o.debug,
     extra_preargs |-> o.extra_preargs, extra_postargs |-> m,
     depends |-> o.depends]

HostFile == <<"c", ".", "c">>
GpuFile == <<"u", ".", "c", "u">>

\* the extension table of lines 118-147, with the disabled GPU extension, and
\* descriptors that omit the flags of a toolchain or the sources
ExtSamples ==
    { [sources |-> <<HostFile>>, extra_compile_args |-> [k \in {"gcc"} |-> << >>]],
      [sources |-> <<HostFile, GpuFile>>,
       extra_compile_args |-> [k \in ToolKeys |->
                                 IF k = "gcc" THEN << >> ELSE <<"-arch=sm_35">>]],
      [sources |-> <<GpuFile>>, extra_compile_args |-> [k \in {"gcc"} |-> << >>]],
      [sources |-> << >>, extra_compile_args |-> [k \in {"gcc"} |-> << >>]] }

\* build_ext.build_extension passes every argument but extra_preargs
DriverOther ==
    [output_dir |-> "build_temp", macros |-> "macros",
     include_dirs |-> "numpy_include", debug |-> 0,
     extra_preargs |-> "None", depends |-> "depends"]

DriverArgs ==
    { MkArgs(e.sources, DriverOther, e.extra_compile_args) : e \in ExtSamples }

Names == UNION { [1..k -> Chars] : k \in 1..MaxNameLen }

RestSamples == { << >>, <<HostFile>>, <<GpuFile>> }

HarnessArgs ==
    { MkArgs(<<f>> \o r, o, m) : f \in Names, r \in RestSamples,
                                  o \in OtherArgs, m \in PostArgMaps }
    \cup { MkArgs(<< >>, o, m) : o \in OtherArgs, m \in PostArgMaps }

-----------------------------------------------------------------------------
(* The build: setup() runs custom_build_ext.build_extensions *)

\* variant: build_extensions goes on without installing the override
customize_noinstall ==
    /\ pc = "setup"
    /\ pc' = "build"
    /\ UNCHANGED <<envVars, home, nvcc, vidx, CUDA, searches, locateCalls,
                   installed, extIdx, callVars, raised, status>>

\* line 112: customize_compiler_for_nvcc(self.compiler)
customize_compiler_for_nvcc ==
    /\ pc = "setup"
    /\ installed' = TRUE
    /\ pc' = "build"
    /\ UNCHANGED <<envVars, home, nvcc, vidx, CUDA, searches, locateCalls,
                   extIdx, callVars, raised, status>>

\* variant: the failure is recorded and the build goes on to the next extension
BuildFailureContinue(e) ==
    /\ raised' = Append(raised, e)
    /\ extIdx' = extIdx + 1
    /\ UNCHANGED <<pc, status>>

\* line 113: what the build does with an exception leaving self.compile
BuildFailure(e) == Raise(e) /\ UNCHANGED extIdx

\* line 113: build_ext.build_extensions compiles the next extension
BuildExtension ==
    /\ pc = "build"
    /\ extIdx < numExt
    /\ \E args \in DriverArgs, ok \in BOOLEAN :
          /\ CallCompile(args)
          /\ IF CallError(args, ok) # << >>
             THEN BuildFailure(CallError(args, ok)[1])
             ELSE /\ extIdx' = extIdx + 1
                  /\ UNCHANGED <<pc, raised, status>>
    /\ UNCHANGED <<envVars, home, nvcc, vidx, CUDA, searches, locateCalls,
                   installed>>

\* lines 151-156: setup() returns after the last extension
BuildDone ==
    /\ pc = "build"
    /\ extIdx = numExt
    /\ pc' = "exit"
    /\ status' = "0"
    /\ UNCHANGED <<envVars, home, nvcc, vidx, CUDA, searches, locateCalls,
                   installed, extIdx, callVars, raised>>

-----------------------------------------------------------------------------
(* The script, from its first line *)

Init ==
    /\ environ \in {<< >>} \cup { <<h>> : h \in HomeValues }
    /\ PATH \in SeqsUpTo(SearchDirs, MaxPathLen)
    /\ fs \in Filesystems
    /\ noexec \in SUBSET ({<<"cuda", "bin", "nvcc">>} \cap fs)
    /\ numExt \in 1..MaxExt
    /\ pc = "locate"
    /\ home = << >>
    /\ nvcc = << >>
    /\ vidx = 0
    /\ CUDA = << >>
    /\ searches = 0
    /\ locateCalls = 0
    /\ installed = FALSE
    /\ extIdx = 0
    /\ compileCalls = 0
    /\ baseCalls = 0
    /\ lastArgs = << >>
    /\ lastBase = << >>
    /\ lastMap = << >>
    /\ raised = << >>
    /\ status = "running"

Next ==
    \/ LocateOverride
    \/ LocateSearch
    \/ LocateNotFound
    \/ ValidateStep
    \/ ValidateFail
    \/ LocateReturn
    \/ customize_compiler_for_nvcc
    \/ BuildExtension
    \/ BuildDone

Spec == Init /\ [][Next]_vars

-----------------------------------------------------------------------------
(* The override called on its own, once, with arbitrary arguments *)

InitCompile ==
    /\ environ = <<CudaRoot>>
    /\ PATH = << >>
    /\ fs = Closure(Leaves)
    /\ noexec = {}
    /\ numExt = 0
    /\ pc = "call"
    /\ home = CudaRoot
    /\ nvcc = override_nvcc(CudaRoot)
    /\ vidx = Len(ConfigKeys) + 1
    /\ CUDA = <<cudaconfig(CudaRoot, override_nvcc(CudaRoot))>>
    /\ searches = 0
    /\ locateCalls = 1
    /\ installed = TRUE
    /\ extIdx = 0
    /\ compileCalls = 0
    /\ baseCalls = 0
    /\ lastArgs = << >>
    /\ lastBase = << >>
    /\ lastMap = << >>
    /\ raised = << >>
    /\ status = "running"

CompileOnce ==
    /\ pc = "call"
    /\ \E args \in HarnessArgs, ok \in BOOLEAN :
          /\ CallCompile(args)
          /\ raised' = raised \o CallError(args, ok)
    /\ pc' = "returned"
    /\ UNCHANGED <<envVars, home, nvcc, vidx, CUDA, searches, locateCalls,
                   installed, extIdx, status>>

NextCompile == CompileOnce

SpecCompile == InitCompile /\ [][NextCompile]_vars

-----------------------------------------------------------------------------
(* Vocabulary of the properties, stated independently of the model's code    *)

ParentOf(p) == IF p = << >> THEN p ELSE SubSeq(p, 1, Len(p) - 1)

\* locate_cuda has returned or raised
LocateOver == pc \notin {"locate", "validate"}

LocateErrors == { i \in 1..Len(raised) : raised[i].kind \in {"NotFound", "PathInvalid"} }

OverrideSet == environ # << >>

\* the i-th directory of the search path holds an executable nvcc
Matches(i) == (PATH[i] \o <<"nvcc">>) \in fs /\ (PATH[i] \o <<"nvcc">>) \notin noexec

HasMatch == \E i \in 1..Len(PATH) : Matches(i)

FirstMatch == CHOOSE i \in 1..Len(PATH) : Matches(i) /\ \A j \in 1..(i - 1) : ~Matches(j)

Located == PATH[FirstMatch] \o <<"nvcc">>

RootKnown == OverrideSet \/ HasMatch

ExpectedRoot == IF OverrideSet THEN environ[1] ELSE ParentOf(ParentOf(Located))

\* the executable the descriptor names: <root>/bin/nvcc under the override,
\* else the executable the search located
ExpectedExe == IF OverrideSet THEN environ[1] \o <<"bin", "nvcc">> ELSE Located

Derived(root, exe) ==
    [home |-> root, nvcc |-> exe, include |-> root \o <<"include">>,
     lib64 |-> root \o <<"lib", "x64">>]

LayoutExists(root) ==
    /\ root \in fs
    /\ (root \o <<"bin", "nvcc">>) \in fs
    /\ (root \o <<"include">>) \in fs
    /\ (root \o <<"lib", "x64">>) \in fs

\* the four fields in validation order, with the names the errors use
FieldNames == <<"home", "nvcc", "include", "lib64">>

Required == <<ExpectedRoot, ExpectedExe, ExpectedRoot \o <<"include">>,
              ExpectedRoot \o <<"lib", "x64">> >>

Missing(i) == Required[i] \notin fs

FirstMissing == CHOOSE i \in 1..4 : Missing(i) /\ \A j \in 1..(i - 1) : ~Missing(j)

-----------------------------------------------------------------------------
(* C1, as stated: when <root>, <root>/bin/nvcc, <root>/include and           *)
(* <root>/lib/x64 exist, locate_cuda raises nothing and returns exactly       *)
(* root, <root>/bin/nvcc, <root>/include, <root>/lib/x64.                     *)
C1_AsStated ==
    (LocateOver /\ RootKnown /\ LayoutExists(ExpectedRoot))
        => /\ LocateErrors = {}
           /\ CUDA = <<Derived(ExpectedRoot, ExpectedRoot \o <<"bin", "nvcc">>)>>

(* C1, amended: under the same precondition locate_cuda raises nothing and   *)
(* returns root, include and library as derived, and as compiler executable   *)
(* the located executable: CUDAHOME/bin/nvcc under the override, otherwise    *)
(* the first search-path match, whatever its directory is called.             *)
C1_LocateReturnsDerived ==
    (LocateOver /\ RootKnown /\ LayoutExists(ExpectedRoot))
        => /\ LocateErrors = {}
           /\ CUDA = <<Derived(ExpectedRoot, ExpectedExe)>>

C1_Witness ==
    /\ LocateOver /\ ~OverrideSet /\ HasMatch /\ LayoutExists(ExpectedRoot)
    /\ CUDA # << >>
    /\ CUDA[1].nvcc = <<"cuda", "alt", "nvcc">>

(* C2: when one of the four paths (root, compiler executable, include,       *)
(* library) is missing, locate_cuda returns no descriptor and raises exactly  *)
(* the path-invalid error naming the field and the path of the first missing  *)
(* one in that order, whichever later paths are missing too.                  *)
C2_FirstMissingReported ==
    (LocateOver /\ RootKnown /\ \E i \in 1..4 : Missing(i))
        => /\ CUDA = << >>
           /\ raised = << [kind |-> "PathInvalid", key |-> FieldNames[FirstMissing],
                           path |-> Required[FirstMissing], var |-> ""] >>

C2_Witness ==
    /\ LocateOver /\ RootKnown
    /\ ~Missing(1) /\ Missing(2) /\ Missing(3) /\ ~Missing(4)
    /\ Len(raised) = 1 /\ raised[1].key = "nvcc"

(* C3: with CUDAHOME set, locate_cuda never searches the PATH, and its       *)
(* result is decided by CUDAHOME and the filesystem alone: the descriptor of  *)
(* CUDAHOME when its layout exists, no descriptor otherwise.                  *)
C3_OverrideSkipsSearch ==
    (LocateOver /\ OverrideSet)
        => /\ searches = 0
           /\ LayoutExists(environ[1])
                => (CUDA = <<Derived(environ[1], environ[1] \o <<"bin", "nvcc">>)>>
                    /\ LocateErrors = {})
           /\ ~LayoutExists(environ[1]) => CUDA = << >>

C3_Witness ==
    /\ LocateOver /\ OverrideSet /\ LayoutExists(environ[1])
    /\ PATH # << >> /\ ~HasMatch
    /\ CUDA # << >>

(* C4: with CUDAHOME unset and no executable nvcc on the PATH, locate_cuda   *)
(* raises the not-found error once, naming nvcc and CUDAHOME, never enters    *)
(* the validation loop and raises no path-invalid error.                      *)
C4_NotFoundOnce ==
    (LocateOver /\ ~OverrideSet /\ ~HasMatch)
        => /\ raised = << [kind |-> "NotFound", key |-> "nvcc", path |-> << >>,
                           var |-> "CUDAHOME"] >>
           /\ vidx = 0
           /\ CUDA = << >>

C4_Witness ==
    /\ LocateOver /\ ~OverrideSet /\ ~HasMatch
    /\ Len(PATH) = MaxPathLen
    /\ <<"cuda", "bin", "nvcc">> \in noexec /\ PATH[1] = <<"cuda", "bin">>
    /\ Len(raised) = 1

(* C10: with CUDAHOME unset, the executable located is the one in the        *)
(* earliest directory of the PATH holding an executable nvcc, and the root    *)
(* is its parent's parent; the PATH is neither sorted nor reordered.          *)
C10_FirstMatchWins ==
    (LocateOver /\ ~OverrideSet /\ HasMatch)
        => /\ nvcc = Located
           /\ home = ParentOf(ParentOf(Located))

C10_Witness ==
    /\ LocateOver /\ ~OverrideSet
    /\ Len(PATH) >= 2 /\ Matches(1) /\ Matches(2)
    /\ PATH[1] = <<"usr", "bin">> /\ PATH[2] = <<"cuda", "bin">>
    /\ nvcc = <<"usr", "bin", "nvcc">>

-----------------------------------------------------------------------------
(* Vocabulary of the dispatch properties *)

\* f has the extension ".cu": it ends in ".cu", and the file name before that
\* suffix (what follows the last "/") holds a character other than "."
HasGpuExtension(f) ==
    /\ Len(f) >= 4
    /\ SubSeq(f, Len(f) - 2, Len(f)) = <<".", "c", "u">>
    /\ \E j \in 1..(Len(f) - 3) :
          /\ f[j] \notin {".", "/"}
          /\ \A i \in j..(Len(f) - 3) : f[i] # "/"

\* the toolchain identifier of a call, from its first source file alone
Identifier(a) == IF HasGpuExtension(a.sources[1]) THEN "nvcc" ELSE "gcc"

Called == lastArgs # << >>

Forwarded == lastBase # << >>

(* C5: whenever the override reaches the original compile, the flag list it  *)
(* passes is the "nvcc" entry of the mapping if the first source file has the *)
(* extension .cu and the "gcc" entry otherwise; the other source files and    *)
(* arguments play no part.                                                    *)
C5_FlagsByFirstSource ==
    Forwarded
        => /\ Identifier(lastArgs[1]) \in DOMAIN lastArgs[1].extra_postargs
           /\ lastBase[1].extra_postargs
                = lastArgs[1].extra_postargs[Identifier(lastArgs[1])]

C5_Witness ==
    /\ Forwarded
    /\ lastArgs[1].sources = <<GpuFile, HostFile>>
    /\ DOMAIN lastArgs[1].extra_postargs = {"gcc", "nvcc"}
    /\ lastArgs[1].extra_postargs["gcc"] = <<"-O2">>
    /\ lastBase[1].extra_postargs = <<"-arch=sm_35">>

(* C6: whenever the override reaches the original compile, sources,          *)
(* output_dir, macros, include_dirs, debug, extra_preargs and depends arrive  *)
(* as the caller gave them, and the caller's mapping is unchanged.            *)
C6_OtherArgsForwarded ==
    Forwarded
        => /\ lastBase[1].sources = lastArgs[1].sources
           /\ lastBase[1].output_dir = lastArgs[1].output_dir
           /\ lastBase[1].macros = lastArgs[1].macros
           /\ lastBase[1].include_dirs = lastArgs[1].include_dirs
           /\ lastBase[1].debug = lastArgs[1].debug
           /\ lastBase[1].extra_preargs = lastArgs[1].extra_preargs
           /\ lastBase[1].depends = lastArgs[1].depends
           /\ DOMAIN lastMap[1] = DOMAIN lastArgs[1].extra_postargs
           /\ \A k \in DOMAIN lastMap[1] : lastMap[1][k] = lastArgs[1].extra_postargs[k]

C6_Witness ==
    /\ Forwarded
    /\ Len(lastArgs[1].sources) = 2
    /\ lastBase[1].output_dir = "build_temp"
    /\ lastBase[1].debug = 1
    /\ lastBase[1].depends = "depends"

\* the call named a first source file whose identifier the mapping lacks
EntryMissing ==
    /\ Called
    /\ lastArgs[1].sources # << >>
    /\ Identifier(lastArgs[1]) \notin DOMAIN lastArgs[1].extra_postargs

(* C7, as stated: when the mapping has no entry for the identifier, the      *)
(* override fails with an error naming the identifier and the source file,    *)
(* and the original compile is not called.                                    *)
C7_AsStated ==
    EntryMissing
        => /\ baseCalls = 0
           /\ Len(raised) = 1
           /\ raised[1].key = Identifier(lastArgs[1])
           /\ raised[1].path = lastArgs[1].sources[1]

(* C7, amended: when the mapping has no entry for the identifier, the        *)
(* override fails with the missing-key error naming the identifier only, the  *)
(* original compile is not called, and no empty flag list is substituted.     *)
C7_MissingEntryFails ==
    EntryMissing
        => /\ baseCalls = 0
           /\ ~Forwarded
           /\ raised = << [kind |-> "KeyError", key |-> Identifier(lastArgs[1]),
                           path |-> << >>, var |-> ""] >>

C7_Witness ==
    /\ EntryMissing
    /\ lastArgs[1].sources = <<GpuFile>>
    /\ DOMAIN lastArgs[1].extra_postargs = {"gcc"}
    /\ Len(raised) = 1 /\ raised[1].key = "nvcc"

-----------------------------------------------------------------------------
(* Properties of the build *)

C8_Inv ==
    /\ status = "0" => /\ CUDA # << >>
                       /\ raised = << >>
                       /\ extIdx = numExt
                       /\ baseCalls = numExt
    /\ raised # << >> => pc = "exit" /\ status = "1"

C8_Step == raised # << >> => compileCalls' = compileCalls /\ baseCalls' = baseCalls

(* C8: the build is fail-fast: once locate_cuda or a compile call has        *)
(* raised, no further compile call is made and the process ends with a        *)
(* non-zero status; the status is zero only if locate_cuda and the compile    *)
(* call of every extension succeeded.                                         *)
C8_FailFast == []C8_Inv /\ [][C8_Step]_vars

C8_Witness ==
    /\ pc = "exit" /\ status = "1"
    /\ extIdx = 1 /\ numExt = 2
    /\ Len(raised) = 1 /\ raised[1].kind = "CompileError"

C9_Inv ==
    /\ locateCalls <= 1
    /\ LocateOver => locateCalls = 1
    /\ installed => CUDA # << >>
    /\ compileCalls > 0 => installed

C9_Step ==
    /\ CUDA # << >> => CUDA' = CUDA
    /\ locateCalls' >= locateCalls
    /\ installed => installed'

(* C9: locate_cuda runs exactly once and has returned before the override    *)
(* is installed and before any compile call; the descriptor is never          *)
(* recomputed or changed afterwards; the override is installed before the     *)
(* first compile call.                                                        *)
C9_LocateOnceBeforeBuild == []C9_Inv /\ [][C9_Step]_vars

C9_Witness ==
    /\ compileCalls = 2 /\ installed /\ locateCalls = 1
    /\ CUDA # << >> /\ searches = 1

=============================================================================
